---- MODULE Spec2Model ----
(***************************************************************************)
(* DataFrameChunker (df_chunker.py): splitting a dataframe into chunks of  *)
(* approximately n_approx rows along one column, through a chunk buffer.   *)
(*                                                                         *)
(* A dataframe is the sequence of its rows' values in the grouping column; *)
(* a row is identified by its position.  A chunk (a filtered dataframe) is *)
(* the increasing sequence of the positions of the rows it keeps.          *)
(***************************************************************************)
EXTENDS Integers, Sequences, FiniteSets

\* ---------------------------------------------------------------- bounds
MaxRows == 3
MaxBuf  == 2
MaxKey  == MaxRows - 1
MaxN    == MaxRows

\* The missing value (NaN / None) of the grouping column; real keys are 1..MaxKey.
NaN == 0

KeyValues == 0..MaxKey
Columns   == {"dt"}
ColumnNames == {"dt", "invalid_column"}

\* n_approx as passed: an int of some value, or a non-int (a float such as 2.5).
NApproxValues ==
    {[isint |-> TRUE, val |-> v] : v \in (-1)..MaxN} \cup {[isint |-> FALSE, val |-> 2]}

DataFrames == UNION {[1..len -> KeyValues] : len \in 0..MaxRows}

VARIABLES
    dataframe,    \* self.dataframe: the grouping column, row by row
    n_approx,     \* self.n_approx
    column_name,  \* self.column_name
    result,       \* outcome of the constructor: "none" before it ran
    buffer,       \* self.buffer
    gen,          \* the frame of the generator returned by the latest chunk() call
    staged,       \* history: chunks appended to the buffer since it was last cleared
    last          \* history: the latest buffer operation and what it returned

vars == <<dataframe, n_approx, column_name, result, buffer, gen, staged, last>>

\* ------------------------------------------------------- sequence helpers
Range(s) == {s[i] : i \in DOMAIN s}

RECURSIVE Concat(_)
Concat(ss) == IF ss = <<>> THEN <<>> ELSE Head(ss) \o Concat(Tail(ss))

Min(S) == CHOOSE m \in S : \A x \in S : m <= x

RECURSIVE Sorted(_)
Sorted(S) == IF S = {} THEN <<>> ELSE <<Min(S)>> \o Sorted(S \ {Min(S)})

\* ------------------------------------------------------ pandas primitives
\* dataframe.groupby(column).size().to_dict(): one (key, size) entry per distinct
\* key, in ascending key order (groupby sorts its keys), rows whose key is missing
\* left out (groupby drops them).
groupby_size(df) ==
    LET keys == Sorted(Range(df) \ {NaN})
    IN  [j \in 1..Len(keys) |->
            [key |-> keys[j], size |-> Cardinality({i \in DOMAIN df : df[i] = keys[j]})]]

\* dataframe[dataframe[column].isin(current_chunk)]: the rows whose key is one of
\* current_chunk's, in the dataframe's order.
isin(df, current_chunk) ==
    SelectSeq([i \in 1..Len(df) |-> i], LAMBDA i : df[i] \in Range(current_chunk))

\* [key] * size
Repeat(key, size) == [j \in 1..size |-> key]

\* -------------------------------------------------------------- the class
\* Variants of the definitions below, each changed the way a slip in the code would
\* change it; the properties at the end are checked to tell them from the code.
validate_params_AcceptsZero(df, n, col) ==
    IF col \notin Columns THEN "KeyError"
    ELSE IF ~n.isint \/ n.val < 0 THEN "ValueError"
    ELSE "ok"

add_to_buffer_Prepend(buf, chunk) == <<chunk>> \o buf

Reached_Strict(current_chunk, n) == Len(current_chunk) > n

Reached_OneShort(current_chunk, n) == Len(current_chunk) >= n - 1

Remainder_Always(df, w) ==
    [buffer |-> Append(w.buffer, isin(df, w.current_chunk)),
     current_chunk |-> w.current_chunk,
     sealed |-> Append(w.sealed, w.current_chunk)]

Remainder_Dropped(df, w) == w

\* validate_params: the exception raised, or "ok".
validate_params(df, n, col) ==
    IF col \notin Columns THEN "KeyError"
    ELSE IF ~n.isint \/ n.val <= 0 THEN "ValueError"
    ELSE "ok"

add_to_buffer(buf, chunk) == Append(buf, chunk)

\* flush_buffer: what it returns, and the buffer it leaves.
flush_buffer(buf) == [ret |-> buf, buffer |-> <<>>]

\* The test that seals a chunk.
Reached(current_chunk, n) == Len(current_chunk) >= n

\* One iteration of the loop over groups.items(); w is the loop's state: the
\* buffer, current_chunk, and (history) the accumulations sealed so far.
LoopStep(df, n, g, w) ==
    LET cc == w.current_chunk \o Repeat(g.key, g.size)
    IN  IF Reached(cc, n)
        THEN [buffer |-> add_to_buffer(w.buffer, isin(df, cc)),
              current_chunk |-> <<>>,
              sealed |-> Append(w.sealed, cc)]
        ELSE [buffer |-> w.buffer, current_chunk |-> cc, sealed |-> w.sealed]

RECURSIVE Loop(_, _, _, _, _)
Loop(df, n, groups, i, w) ==
    IF i > Len(groups) THEN w
    ELSE Loop(df, n, groups, i + 1, LoopStep(df, n, groups[i], w))

\* After the loop: what is left in current_chunk becomes the last chunk.
Remainder(df, w) ==
    IF w.current_chunk # <<>>
    THEN [buffer |-> add_to_buffer(w.buffer, isin(df, w.current_chunk)),
          current_chunk |-> w.current_chunk,
          sealed |-> Append(w.sealed, w.current_chunk)]
    ELSE w

\* chunk(), up to the flush: the boundary pass over the groups, staging into buf.
BoundaryPass(df, n, buf) ==
    Remainder(df, Loop(df, n, groupby_size(df), 1,
                       [buffer |-> buf, current_chunk |-> <<>>, sealed |-> <<>>]))

\* The chunks a boundary pass over df builds, starting from an empty buffer.
ChunksOf(df, n) == BoundaryPass(df, n, <<>>).buffer

ChunkSizes(df, n) == [j \in DOMAIN ChunksOf(df, n) |-> Len(ChunksOf(df, n)[j])]

\* ------------------------------------------------------------ state machine
NoGen == [st |-> "none", out |-> <<>>, pending |-> <<>>, sealed |-> <<>>, startBuf |-> <<>>]
NoOp  == [op |-> "none", ret |-> <<>>, log |-> <<>>]

Init ==
    /\ dataframe \in DataFrames
    /\ n_approx \in NApproxValues
    /\ column_name \in ColumnNames
    /\ result = "none"
    /\ buffer = <<>>
    /\ gen = NoGen
    /\ staged = <<>>
    /\ last = NoOp

\* DataFrameChunker(dataframe, n_approx, column_name)
Construct ==
    /\ result = "none"
    /\ buffer' = <<>>
    /\ result' = validate_params(dataframe, n_approx, column_name)
    /\ UNCHANGED <<dataframe, n_approx, column_name, gen, staged, last>>

\* chunker.add_to_buffer(chunk), called from outside with a slice dataframe.iloc[:k]
\* (the empty slice or the whole dataframe)
AddToBuffer ==
    /\ result = "ok"
    /\ Len(buffer) < MaxBuf
    /\ \E k \in {0, Len(dataframe)} :
        LET chunk == [i \in 1..k |-> i]
        IN  /\ buffer' = add_to_buffer(buffer, chunk)
            /\ staged' = Append(staged, chunk)
            /\ last' = [op |-> "add", ret |-> <<>>, log |-> <<>>]
    /\ UNCHANGED <<dataframe, n_approx, column_name, result, gen>>

\* chunker.flush_buffer(), called from outside
FlushBuffer ==
    /\ result = "ok"
    /\ buffer' = flush_buffer(buffer).buffer
    /\ last' = [op |-> "flush", ret |-> flush_buffer(buffer).ret, log |-> staged]
    /\ staged' = <<>>
    /\ UNCHANGED <<dataframe, n_approx, column_name, result, gen>>

\* chunker.chunk(): a new generator; its body does not run before the first pull.
\* The generator of the previous call, if any, is dropped where it stands.
CallChunk ==
    /\ result = "ok"
    /\ gen' = [NoGen EXCEPT !.st = "created"]
    /\ UNCHANGED <<dataframe, n_approx, column_name, result, buffer, staged, last>>

\* The first pull: the body runs from its start to the first yield (or to its end).
GenStart ==
    /\ gen.st = "created"
    /\ LET w       == BoundaryPass(dataframe, n_approx.val, buffer)
           flushed == flush_buffer(w.buffer)
           built   == [j \in DOMAIN w.sealed |-> isin(dataframe, w.sealed[j])]
       IN  /\ buffer' = flushed.buffer
           /\ last' = [op |-> "flush", ret |-> flushed.ret, log |-> staged \o built]
           /\ staged' = <<>>
           /\ gen' = IF flushed.ret = <<>>
                     THEN [st |-> "done", out |-> <<>>, pending |-> <<>>,
                           sealed |-> w.sealed, startBuf |-> buffer]
                     ELSE [st |-> "suspended", out |-> <<Head(flushed.ret)>>,
                           pending |-> Tail(flushed.ret),
                           sealed |-> w.sealed, startBuf |-> buffer]
    /\ UNCHANGED <<dataframe, n_approx, column_name, result>>

\* A later pull: the loop over the flushed list yields its next chunk, or ends.
GenResume ==
    /\ gen.st = "suspended"
    /\ gen' = IF gen.pending = <<>>
              THEN [gen EXCEPT !.st = "done"]
              ELSE [gen EXCEPT !.out = Append(@, Head(gen.pending)),
                               !.pending = Tail(@)]
    /\ UNCHANGED <<dataframe, n_approx, column_name, result, buffer, staged, last>>

Next == Construct \/ AddToBuffer \/ FlushBuffer \/ CallChunk \/ GenStart \/ GenResume

Spec == Init /\ [][Next]_vars

\* Production runs on an instance whose buffer only chunk() itself touches.
NextRun == Construct \/ CallChunk \/ GenStart \/ GenResume

SpecRun == Init /\ [][NextRun]_vars
\* ------------------------------------------------------------- properties
n == n_approx.val

\* The chunks of the current run: those emitted, then those still to be emitted.
Started  == gen.st \in {"suspended", "done"}
Produced == gen.out \o gen.pending

RowsOf(v)    == {i \in DOMAIN dataframe : dataframe[i] = v}
KeysIn(c)    == {dataframe[r] : r \in Range(c)}
FirstOcc(v)  == Min(RowsOf(v))
AllRows      == [i \in 1..Len(dataframe) |-> i]
PositiveInt  == n_approx.isint /\ n_approx.val > 0
SizesFrom(chunks) == [j \in DOMAIN chunks |-> Len(chunks[j])]

\* C1: after a run is consumed to exhaustion, every grouping-column value that
\* occurs in the dataframe is in exactly one emitted chunk, and that chunk holds
\* all the rows bearing it.
C1_NoGroupSplitting ==
    gen.st = "done" =>
        \A v \in Range(dataframe) :
            /\ Cardinality({j \in DOMAIN gen.out : v \in KeysIn(gen.out[j])}) = 1
            /\ \A j \in DOMAIN gen.out :
                   v \in KeysIn(gen.out[j]) => RowsOf(v) \subseteq Range(gen.out[j])

\* The same for the values that are not missing: it holds (the missing value is
\* what C1 fails on).
NoGroupSplittingOfPresentKeys ==
    gen.st = "done" =>
        \A v \in Range(dataframe) \ {NaN} :
            /\ Cardinality({j \in DOMAIN gen.out : v \in KeysIn(gen.out[j])}) = 1
            /\ \A j \in DOMAIN gen.out :
                   v \in KeysIn(gen.out[j]) => RowsOf(v) \subseteq Range(gen.out[j])

\* C2: the rows of the chunks of one exhausted run, concatenated in emission
\* order, are the dataframe's rows, each once, in the dataframe's order.
C2_NoRowLossOrDuplication ==
    gen.st = "done" => Concat(gen.out) = AllRows

\* What holds instead of C2: each row whose key is not missing is in exactly one
\* chunk, and each chunk keeps the dataframe's order.
EachPresentRowOnce ==
    gen.st = "done" =>
        /\ \A i \in DOMAIN dataframe :
               Cardinality({j \in DOMAIN gen.out : i \in Range(gen.out[j])})
                   = (IF dataframe[i] = NaN THEN 0 ELSE 1)
        /\ \A j \in DOMAIN gen.out :
               \A a, b \in DOMAIN gen.out[j] : a < b => gen.out[j][a] < gen.out[j][b]

\* C3: every chunk of a run other than its last has at least n_approx rows.
C3_ThresholdPolicy ==
    Started => \A j \in 1..(Len(Produced) - 1) : Len(Produced[j]) >= n

C3_Witness ==
    /\ gen.st = "done"
    /\ Len(gen.out) >= 2
    /\ Len(gen.out[Len(gen.out)]) < n

\* C4: a chunk is sealed at the first group at which the running sum reaches
\* n_approx: the rows of a chunk's groups other than the last one accumulated
\* are fewer than n_approx; the accumulation restarts empty after a seal (a
\* chunk holds exactly the rows of its own accumulation, which shares no key with
\* the others); a group of at least n_approx rows that starts an accumulation is
\* a chunk by itself; and the two walks of the scenario give the stated sizes.
C4_GreedySeal ==
    /\ Started =>
        /\ Len(gen.sealed) = Len(Produced)
        /\ \A j \in DOMAIN Produced :
            LET acc == gen.sealed[j]
            IN  /\ acc # <<>>
                /\ Cardinality({r \in Range(Produced[j]) :
                                    dataframe[r] # acc[Len(acc)]}) < n
                /\ Range(Produced[j]) = UNION {RowsOf(k) : k \in Range(acc)}
                /\ \A j2 \in DOMAIN Produced :
                       j2 # j => Range(acc) \cap Range(gen.sealed[j2]) = {}
                /\ Cardinality(RowsOf(acc[1])) >= n
                       => Range(Produced[j]) = RowsOf(acc[1])
    /\ ChunkSizes(<<1, 1, 1, 2, 2, 2, 3, 3, 3, 4>>, 2) = <<3, 3, 3, 1>>
    /\ ChunkSizes(<<1, 1, 2, 2, 2, 3, 3, 3, 4>>, 2) = <<2, 3, 3, 1>>

C4_Witness ==
    /\ gen.st = "done"
    /\ Len(gen.out) >= 1
    /\ Len(gen.out[1]) > n
    /\ Cardinality(KeysIn(gen.out[1])) = 2

\* C5: for keys k1, k2 with k1 first appearing before k2 in the dataframe, the
\* chunk holding k1 is emitted no later than the chunk holding k2.
C5_FirstOccurrenceOrder ==
    gen.st = "done" =>
        \A j1, j2 \in DOMAIN gen.out :
            \A k1 \in KeysIn(gen.out[j1]), k2 \in KeysIn(gen.out[j2]) :
                FirstOcc(k1) < FirstOcc(k2) => j1 <= j2

\* What holds instead of C5: chunks come in ascending key order.
AscendingKeyOrder ==
    gen.st = "done" =>
        \A j1, j2 \in DOMAIN gen.out :
            \A k1 \in KeysIn(gen.out[j1]), k2 \in KeysIn(gen.out[j2]) :
                k1 < k2 => j1 <= j2

\* C6: the buffer holds, in order, the chunks staged since construction or the
\* last drain (so a stage adds one entry at the tail and leaves the others), and
\* a drain returns exactly those chunks in that order and leaves the buffer empty.
C6_BufferFifo ==
    /\ buffer = staged
    /\ last.op = "add" => Len(buffer) >= 1
    /\ last.op = "flush" => last.ret = last.log /\ buffer = <<>>

C6_Witness ==
    /\ last.op = "flush"
    /\ Len(last.ret) >= 2
    /\ last.ret[1] # last.ret[2]
    /\ gen.st = "none"

\* C7: construction fails with KeyError when column_name is no column, with
\* ValueError when (the column being there) n_approx is no positive integer, and
\* succeeds otherwise; when it fails, nothing was staged or produced.
C7_ConstructionValidation ==
    result # "none" =>
        /\ column_name \notin Columns => result = "KeyError"
        /\ column_name \in Columns /\ ~PositiveInt => result = "ValueError"
        /\ ~PositiveInt => result \in {"KeyError", "ValueError"}
        /\ column_name \in Columns /\ PositiveInt => result = "ok"
        /\ result # "ok" =>
               buffer = <<>> /\ staged = <<>> /\ gen = NoGen /\ last = NoOp

C7_Witness ==
    /\ result = "ValueError"
    /\ n_approx.isint
    /\ n_approx.val = 0

\* C8: every chunk of a run has at least one row; a dataframe of zero rows is
\* accepted by the constructor and its run ends having emitted nothing.
C8_NonEmptyChunks ==
    /\ \A j \in DOMAIN Produced : Produced[j] # <<>>
    /\ dataframe = <<>> /\ column_name \in Columns /\ PositiveInt /\ result # "none"
           => result = "ok"
    /\ dataframe = <<>> /\ Started => gen.st = "done" /\ gen.out = <<>>

C8_Witness ==
    /\ dataframe = <<>>
    /\ gen.st = "done"
    /\ gen.out = <<>>

\* C9 as stated: when a chunk has been emitted and the generator is suspended, no
\* later chunk has been materialized.
C9_NothingBuiltAhead ==
    gen.st = "suspended" => gen.pending = <<>> \/ Len(gen.out) = 0

\* C9 as amended: the generator suspends with a chunk emitted, and by the first
\* emission every group (every key that is not missing) has been accumulated and
\* materialized and the buffer drained; only emission is left to the later pulls.
C9_AllBuiltBeforeFirstEmission ==
    /\ gen.st = "suspended" => Len(gen.out) >= 1
    /\ Started =>
        /\ buffer = <<>>
        /\ \A i \in DOMAIN dataframe :
               dataframe[i] # NaN => \E j \in DOMAIN Produced : i \in Range(Produced[j])

C9_Witness ==
    /\ gen.st = "suspended"
    /\ Len(gen.out) = 1
    /\ Len(gen.pending) >= 1

\* C10: whatever calls came before, the buffer is empty when a run's body begins,
\* and the run emits exactly the chunks its own boundary pass built.
C10_BufferStartsEmpty ==
    /\ Started => gen.startBuf = <<>>
    /\ gen.st = "done" =>
           gen.out = [j \in DOMAIN gen.sealed |-> isin(dataframe, gen.sealed[j])]
====
